---- MODULE Spec2Model ----
(***************************************************************************)
(* minigrep: the worker pool (src/thread_pool.rs), the directory walker    *)
(* and the single-file search driver (src/lib.rs) and main (src/main.rs).  *)
(*                                                                         *)
(* Spec      the whole program: main builds the pool, walks the target,    *)
(*           drops the pool.                                               *)
(* PoolSpec  the pool as a library: a client submits any sequence of jobs  *)
(*           (at most MaxJobs) and then drops the pool.                    *)
(* FairSpec, FairPoolSpec  the same with the scheduler's fairness.         *)
(***************************************************************************)
EXTENDS Integers, Sequences, FiniteSets, TLC

VARIABLES
    config,     \* lib.rs Config, fixed by Config::build
    mainpc,     \* position of the main thread
    cwd,        \* the process-wide working directory (physical, absolute)
    stack,      \* the activation records of run_dir / run_dir_with_git
    ret,        \* what the walk (or run) returned to main
    diag,       \* what was written to stderr
    sender,     \* ThreadPool.sender is Some
    queue,      \* the mpsc channel: job ids, oldest first
    jobs,       \* every job ever passed to execute, by submission order
    workers,    \* the worker threads
    lock,       \* holder of the Mutex around the Receiver, 0 when free
    joined,     \* how many workers Drop has joined
    taken,      \* job ids in the order recv handed them out
    out,        \* the files for which a block was printed on stdout
    \* run, on the contents of one file
    query,       \* Config.query, as UTF-8 bytes
    ignore_case, \* Config.ignore_case
    contents,    \* what read_to_string returned, as UTF-8 bytes
    results,     \* what the search returned
    chunks,      \* for each result, what split_by_matches returned
    runpc        \* where run is

mvars == <<config, mainpc, cwd, stack, ret, diag, sender, queue, jobs,
           workers, lock, joined, taken, out>>

svars == <<query, ignore_case, contents, results, chunks, runpc>>

vars == <<mvars, svars>>

\* no search is looked at
NoSearch ==
    /\ query = <<>>
    /\ ignore_case = FALSE
    /\ contents = <<>>
    /\ results = <<>>
    /\ chunks = <<>>
    /\ runpc = "none"

(***************************************************************************)
(* Bounds                                                                  *)
(***************************************************************************)
MaxWorkers == 2
MaxJobs == 3
MaxText == 4
MaxQuery == 2

(***************************************************************************)
(* Names and paths.  A name is a sequence of characters; "xFF" stands for  *)
(* a byte that is not valid UTF-8.  A path is absolute or relative and     *)
(* has a sequence of components.                                           *)
(***************************************************************************)
DOT     == <<".">>
DOTDOT  == <<".", ".">>
ERR     == <<>>            \* a directory item for which read_dir yields Err
NoPath  == <<<<"?">>>>     \* the result of a failed resolution

Abs(comps) == [abs |-> TRUE, comps |-> comps]
Rel(comps) == [abs |-> FALSE, comps |-> comps]

W   == <<"w">>
O   == <<"o">>
X   == <<"x">>
Y   == <<"y">>
L   == <<"l">>
ZF  == <<"z", "xFF">>
A   == <<"a">>
S   == <<".", "s">>
SUB == <<"s", "u", "b">>
B   == <<"b">>
G   == <<"g">>
H   == <<".", "h">>
C   == <<"c">>
IG  == <<"i", "g">>
D   == <<"d">>
E   == <<"e">>
T   == <<"t">>
R   == <<"r">>
U   == <<"u">>
M   == <<"m">>
N   == <<"n">>
V   == <<"v">>
QF  == <<"q", "xFF">>
P   == <<"p">>
K   == <<"k">>
GONE == <<"g", "o", "n", "e">>   \* names nothing

(***************************************************************************)
(* The file system the program runs on.                                    *)
(*   kind    "dir" | "file" | "symlink"                                    *)
(*   entries what read_dir yields for a directory, in order                *)
(*   target  where a symlink points                                        *)
(*   x       the directory can be entered (search permission)              *)
(*   text    the file is readable and valid UTF-8                          *)
(*   hits    the query occurs in at least one line of the file             *)
(***************************************************************************)
Dir(es)    == [kind |-> "dir", entries |-> es, target |-> <<>>, x |-> TRUE,
               text |-> FALSE, hits |-> FALSE]
NoEntry(es) == [Dir(es) EXCEPT !.x = FALSE]
File(t, h) == [kind |-> "file", entries |-> <<>>, target |-> <<>>, x |-> FALSE,
               text |-> t, hits |-> h]
Link(to)   == [kind |-> "symlink", entries |-> <<>>, target |-> to, x |-> FALSE,
               text |-> FALSE, hits |-> FALSE]

FS ==
    (<<>>          :> Dir(<<W, O, X, Y, L, ZF, P>>)) @@
    \* the invocation directory: a.txt, .secret, sub/b.txt
    (<<W>>         :> Dir(<<A, S, SUB>>)) @@
    (<<W, A>>      :> File(TRUE, TRUE)) @@
    (<<W, S>>      :> File(TRUE, TRUE)) @@
    (<<W, SUB>>    :> Dir(<<B>>)) @@
    (<<W, SUB, B>> :> File(TRUE, TRUE)) @@
    \* a directory outside the invocation directory
    (<<O>>         :> Dir(<<G, H, IG, E>>)) @@
    (<<O, G>>      :> File(TRUE, TRUE)) @@
    (<<O, H>>      :> Dir(<<C>>)) @@
    (<<O, H, C>>   :> File(TRUE, FALSE)) @@
    (<<O, IG>>     :> Dir(<<D>>)) @@
    (<<O, IG, D>>  :> File(FALSE, FALSE)) @@
    (<<O, E>>      :> File(TRUE, TRUE)) @@
    \* a directory with an unreadable item and a dangling symlink
    (<<X>>         :> Dir(<<ERR, T, R, U>>)) @@
    (<<X, T>>      :> File(TRUE, FALSE)) @@
    (<<X, R>>      :> Link(<<GONE>>)) @@
    (<<X, U>>      :> File(TRUE, FALSE)) @@
    \* a directory with a subdirectory that cannot be entered
    (<<Y>>         :> Dir(<<M, U>>)) @@
    (<<Y, M>>      :> Dir(<<N, V>>)) @@
    (<<Y, M, N>>   :> NoEntry(<<>>)) @@
    (<<Y, M, V>>   :> File(TRUE, FALSE)) @@
    (<<Y, U>>      :> File(TRUE, FALSE)) @@
    \* a symlink to a directory whose physical path is not valid UTF-8
    (<<L>>         :> Link(<<ZF>>)) @@
    \* and a file whose name is not valid UTF-8
    (<<ZF>>        :> Dir(<<V, QF>>)) @@
    (<<ZF, V>>     :> File(TRUE, TRUE)) @@
    (<<ZF, QF>>    :> File(TRUE, FALSE)) @@
    \* a directory with a symlink to a directory that lies elsewhere
    (<<P>>         :> Dir(<<K, T>>)) @@
    (<<P, K>>      :> Link(<<W, SUB>>)) @@
    (<<P, T>>      :> File(TRUE, TRUE))

\* what the ignore rules of the repository say
IgnoredPaths == { <<O, IG>>, <<O, E>> }

Exists(p) == p \in DOMAIN FS

Parent(p) == IF p = <<>> THEN <<>> ELSE SubSeq(p, 1, Len(p) - 1)

\* The physical path reached from the absolute path `cur` through `comps`,
\* following symlinks (their targets are physical paths); NoPath when a
\* component does not exist.
RECURSIVE Follow(_, _)
Follow(cur, comps) ==
    IF comps = <<>> THEN cur
    ELSE LET c == Head(comps)
             nxt == IF c = DOT THEN cur
                    ELSE IF c = DOTDOT THEN Parent(cur)
                    ELSE Append(cur, c)
         IN  IF ~Exists(nxt) THEN NoPath
             ELSE IF FS[nxt].kind = "symlink"
                  THEN IF Exists(FS[nxt].target)
                       THEN Follow(FS[nxt].target, Tail(comps))
                       ELSE NoPath
                  ELSE Follow(nxt, Tail(comps))

\* Resolution of a path by the operating system at the time of the call:
\* a relative path starts at the working directory `at`.
Canon(at, path) == Follow(IF path.abs THEN <<>> ELSE at, path.comps)

IsPrefix(p, q) == Len(p) <= Len(q) /\ SubSeq(q, 1, Len(p)) = p

Utf8(name) == \A i \in 1..Len(name) : name[i] # "xFF"

\* Path::to_str: None (FALSE) when some component is not valid UTF-8
ToStrOk(p) == \A i \in 1..Len(p) : Utf8(p[i])

\* str::starts_with(".")
StartsWithDot(name) == Len(name) > 0 /\ Head(name) = "."

(***************************************************************************)
(* run (lib.rs): what the search of one file does, given the working       *)
(* directory at the time it runs.                                          *)
(***************************************************************************)
\* str::strip_prefix(original_path) on the path string is Some
StripPrefixOk(fp) == fp.abs /\ IsPrefix(config.original_path, fp.comps)

\* the file fs::read_to_string opens
RunReads(fp) == Canon(cwd, fp)

\* "Err": read_to_string failed; "Ok": no result, nothing printed;
\* "Printed": a block was printed; "Panic": filename.unwrap() on None
RunResult(fp) ==
    LET p == RunReads(fp)
    IN  IF p = NoPath \/ FS[p].kind # "file" \/ ~FS[p].text THEN "Err"
        ELSE IF ~FS[p].hits THEN "Ok"
        ELSE IF StripPrefixOk(fp) THEN "Printed"
        ELSE "Panic"

(***************************************************************************)
(* ThreadPool (thread_pool.rs)                                             *)
(***************************************************************************)
Idle == [state |-> "lock", job |-> 0]

Gone(w) == workers[w].state \in {"dead", "done"}

\* the Receiver is dropped with the last worker thread that owned a clone
\* of the Arc around it
ReceiverAlive == \E w \in DOMAIN workers : ~Gone(w)

NewJob(fp, entry, sent) ==
    [file_path |-> fp, entry |-> entry, sent |-> sent,
     n |-> 0, w |-> 0, read |-> NoPath, res |-> "none"]

\* ThreadPool::new, after which main goes on at `next`
ThreadPoolNew(next) ==
    /\ mainpc = "new"
    /\ IF config.thread_count > 0
       THEN /\ workers' = [w \in 1..config.thread_count |-> Idle]
            /\ sender' = TRUE
            /\ mainpc' = next
       ELSE /\ mainpc' = "panicked"
            /\ UNCHANGED <<workers, sender>>
    /\ UNCHANGED <<svars, config, cwd, stack, ret, diag, queue, jobs, lock, joined,
                   taken, out>>

\* execute with send(job).unwrap(): the send error reaches the caller
ExecuteUnwrap(fp, entry, next) ==
    /\ jobs' = Append(jobs, NewJob(fp, entry, sender /\ ReceiverAlive))
    /\ queue' = IF sender /\ ReceiverAlive
                THEN Append(queue, Len(jobs) + 1)
                ELSE queue
    /\ mainpc' = IF sender /\ ReceiverAlive THEN next ELSE "panicked"

\* execute over a channel without capacity: send waits until a worker is
\* in recv and the job before has been taken
ExecuteRendezvous(fp, entry, next) ==
    /\ (sender /\ ReceiverAlive) =>
          (queue = <<>> /\ \E w \in DOMAIN workers : workers[w].state = "recv")
    /\ jobs' = Append(jobs, NewJob(fp, entry, sender /\ ReceiverAlive))
    /\ queue' = IF sender /\ ReceiverAlive
                THEN Append(queue, Len(jobs) + 1)
                ELSE queue
    /\ mainpc' = IF sender THEN next ELSE "panicked"

\* ThreadPool::execute: sender.as_ref().unwrap().send(job).unwrap_or_default()
\* The caller goes on at `next`.
Execute(fp, entry, next) ==
    /\ jobs' = Append(jobs, NewJob(fp, entry, sender /\ ReceiverAlive))
    /\ queue' = IF sender /\ ReceiverAlive
                THEN Append(queue, Len(jobs) + 1)
                ELSE queue
    /\ mainpc' = IF sender THEN next ELSE "panicked"

\* Worker::new, the thread's loop: receiver.lock()
WorkerLock(w) ==
    /\ workers[w].state = "lock"
    /\ lock = 0
    /\ lock' = w
    /\ workers' = [workers EXCEPT ![w].state = "recv"]
    /\ UNCHANGED <<svars, config, mainpc, cwd, stack, ret, diag, sender, queue, jobs,
                   joined, taken, out>>

\* a receive that hands out the newest job instead of the oldest
WorkerRecvNewest(w) ==
    /\ workers[w].state = "recv"
    /\ lock = w
    /\ queue # <<>> \/ ~sender
    /\ lock' = 0
    /\ IF queue # <<>>
       THEN /\ workers' = [workers EXCEPT ![w] =
                              [state |-> "job", job |-> queue[Len(queue)]]]
            /\ queue' = SubSeq(queue, 1, Len(queue) - 1)
            /\ taken' = Append(taken, queue[Len(queue)])
       ELSE /\ workers' = [workers EXCEPT ![w].state = "done"]
            /\ UNCHANGED <<queue, taken>>
    /\ UNCHANGED <<svars, config, mainpc, cwd, stack, ret, diag, sender, jobs, joined,
                   out>>

\* a receive whose guard lives as long as the job it took
WorkerRecvHolding(w) ==
    /\ workers[w].state = "recv"
    /\ lock = w
    /\ queue # <<>> \/ ~sender
    /\ lock' = IF queue # <<>> THEN w ELSE 0
    /\ IF queue # <<>>
       THEN /\ workers' = [workers EXCEPT ![w] = [state |-> "job", job |-> Head(queue)]]
            /\ queue' = Tail(queue)
            /\ taken' = Append(taken, Head(queue))
       ELSE /\ workers' = [workers EXCEPT ![w].state = "done"]
            /\ UNCHANGED <<queue, taken>>
    /\ UNCHANGED <<svars, config, mainpc, cwd, stack, ret, diag, sender, jobs, joined,
                   out>>

\* .recv() under the lock; the guard is released at the end of the statement
WorkerRecv(w) ==
    /\ workers[w].state = "recv"
    /\ lock = w
    /\ queue # <<>> \/ ~sender
    /\ lock' = 0
    /\ IF queue # <<>>
       THEN /\ workers' = [workers EXCEPT ![w] = [state |-> "job", job |-> Head(queue)]]
            /\ queue' = Tail(queue)
            /\ taken' = Append(taken, Head(queue))
       ELSE /\ workers' = [workers EXCEPT ![w].state = "done"]
            /\ UNCHANGED <<queue, taken>>
    /\ UNCHANGED <<svars, config, mainpc, cwd, stack, ret, diag, sender, jobs, joined,
                   out>>

\* Ok(job) => job(): the closure of run_dir, let _ = run(&new_config)
WorkerRun(w) ==
    /\ workers[w].state = "job"
    /\ LET j == workers[w].job
           res == RunResult(jobs[j].file_path)
       IN  /\ jobs' = [jobs EXCEPT ![j].n = @ + 1, ![j].w = w,
                                   ![j].read = RunReads(jobs[j].file_path),
                                   ![j].res = res]
           /\ out' = IF res = "Printed" THEN out \cup {jobs[j].file_path} ELSE out
           /\ workers' = [workers EXCEPT ![w] =
                             IF res = "Panic"
                             THEN [state |-> "dead", job |-> 0]
                             ELSE Idle]
    /\ UNCHANGED <<svars, config, mainpc, cwd, stack, ret, diag, sender, queue, lock,
                   joined, taken>>

\* a drop that joins the workers without closing the channel
DropSenderKept ==
    /\ mainpc = "drop"
    /\ joined' = 0
    /\ mainpc' = "join"
    /\ UNCHANGED <<svars, config, cwd, stack, ret, diag, sender, queue, jobs, workers,
                   lock, taken, out>>

\* Drop for ThreadPool: drop(self.sender.take())
DropSender ==
    /\ mainpc = "drop"
    /\ sender' = FALSE
    /\ joined' = 0
    /\ mainpc' = "join"
    /\ UNCHANGED <<svars, config, cwd, stack, ret, diag, queue, jobs, workers, lock,
                   taken, out>>

\* Drop for ThreadPool: thread.join().unwrap_or(()) for the next worker
DropJoin ==
    /\ mainpc = "join"
    /\ joined < Len(workers)
    /\ Gone(joined + 1)
    /\ joined' = joined + 1
    /\ mainpc' = IF joined + 1 = Len(workers) THEN "exit" ELSE "join"
    /\ UNCHANGED <<svars, config, cwd, stack, ret, diag, sender, queue, jobs, workers,
                   lock, taken, out>>

(***************************************************************************)
(* A client of the pool, as in the module's example: it submits jobs that  *)
(* search files and lets the pool go out of scope.                         *)
(***************************************************************************)
ClientPaths == { Abs(<<W, A>>), Abs(<<O, G>>), Abs(<<O, IG, D>>) }

ClientNew == ThreadPoolNew("client")

ClientExecute ==
    /\ mainpc = "client"
    /\ Len(jobs) < MaxJobs
    /\ \E fp \in ClientPaths : Execute(fp, Canon(cwd, fp), "client")
    /\ UNCHANGED <<svars, config, cwd, stack, ret, diag, sender, workers, lock,
                   joined, taken, out>>

ClientDrop ==
    /\ mainpc = "client"
    /\ mainpc' = "drop"
    /\ UNCHANGED <<svars, config, cwd, stack, ret, diag, sender, queue, jobs, workers,
                   lock, joined, taken, out>>

PoolConfig(n) ==
    [file_path |-> Abs(<<W>>), original_path |-> <<W>>, repo |-> TRUE,
     hidden_files |-> FALSE, force_git |-> TRUE, thread_count |-> n]

PoolInit ==
    /\ config \in { PoolConfig(n) : n \in 0..MaxWorkers }
    /\ mainpc = "new"
    /\ cwd = config.original_path
    /\ stack = <<>>
    /\ ret = "none"
    /\ diag = {}
    /\ sender = FALSE
    /\ queue = <<>>
    /\ jobs = <<>>
    /\ workers = <<>>
    /\ lock = 0
    /\ joined = 0
    /\ taken = <<>>
    /\ out = {}
    /\ NoSearch

PoolNext ==
    \/ ClientNew
    \/ ClientExecute
    \/ ClientDrop
    \/ \E w \in DOMAIN workers : WorkerLock(w)
    \/ \E w \in DOMAIN workers : WorkerRecv(w)
    \/ \E w \in DOMAIN workers : WorkerRun(w)
    \/ DropSender
    \/ DropJoin

PoolSpec == PoolInit /\ [][PoolNext]_vars

(***************************************************************************)
(* The walker (lib.rs run_dir, run_dir_with_git) and main (main.rs).       *)
(* A frame of the stack is one activation of run_dir:                      *)
(*   path  config.file_path of the call                                    *)
(*   dir   env::current_dir() when the call read the directory             *)
(*   rest  the items of read_dir still to come                             *)
(***************************************************************************)
\* env::set_current_dir(path) succeeds
ChdirOk(path) ==
    LET d == Canon(cwd, path)
    IN  d # NoPath /\ FS[d].kind = "dir" /\ FS[d].x

Frame(path) ==
    LET d == Canon(cwd, path)
    IN  [path |-> path, dir |-> d, rest |-> FS[d].entries]

Top == stack[Len(stack)]

\* the stack with the item at the head of the top frame consumed
Consumed == [stack EXCEPT ![Len(stack)].rest = Tail(@)]

\* an error leaves every activation through `?`; main prints it and ends,
\* which drops the pool
Abort ==
    /\ stack' = <<>>
    /\ ret' = "Err"
    /\ diag' = diag \cup {<<"Application error", Top.dir>>}
    /\ mainpc' = "drop"
    /\ UNCHANGED <<cwd, jobs, queue>>

\* the item is passed over: the loop goes to the next one
Continue(msgs) ==
    /\ stack' = Consumed
    /\ diag' = diag \cup msgs
    /\ UNCHANGED <<cwd, ret, mainpc, jobs, queue>>

\* a hidden filter that does not read the flag
VisibleNoFlag(name) == ~StartsWithDot(name)

\* config.hidden_files || !filename.starts_with(".")
Visible(name) == config.hidden_files \/ ~StartsWithDot(name)

\* a test that takes every entry for a file
MdIsDirNever(at) == FALSE

\* md.is_dir(), of the metadata of the physical file `at`
MdIsDir(at) == FS[at].kind = "dir"

\* an ignore test whose result is not acted upon
SkipIgnoredNever(git, path) == FALSE

\* run_dir_with_git only: if git_repo.is_path_ignored(&path)? { continue; }
SkipIgnored(git, path) == git /\ path \in IgnoredPaths

\* the body of the for loop, for the item at the head of the top frame;
\* `git` is TRUE in run_dir_with_git
WalkEntry(git) ==
    /\ mainpc = "walk"
    /\ stack # <<>>
    /\ Top.rest # <<>>
    /\ LET name == Head(Top.rest)
           path == Append(Top.dir, name)          \* entry.path()
           at   == Canon(<<>>, Abs(path))         \* what fs::metadata sees
           msgs == IF ToStrOk(path) THEN {} ELSE {<<"path error", path>>}
           new_path == IF ToStrOk(path) THEN Abs(path) ELSE Top.path
       IN  IF name = ERR
           THEN Continue({<<"entry error", Top.dir>>})
           ELSE IF SkipIgnored(git, path)
           THEN Continue({})
           ELSE IF at = NoPath
           THEN Abort
           ELSE IF ~Utf8(name)
           THEN \* file_name().unwrap().to_str().unwrap() panics in main
                /\ stack' = <<>>
                /\ ret' = "Panic"
                /\ diag' = diag \cup msgs
                /\ mainpc' = "drop"
                /\ UNCHANGED <<cwd, jobs, queue>>
           ELSE IF ~Visible(name)
           THEN Continue(msgs)
           ELSE IF MdIsDir(at)
           THEN IF ChdirOk(new_path)
                THEN /\ stack' = Append(Consumed, Frame(new_path))
                     /\ cwd' = Canon(cwd, new_path)
                     /\ diag' = diag \cup msgs
                     /\ UNCHANGED <<ret, mainpc, jobs, queue>>
                ELSE Abort
           ELSE /\ Execute(new_path, path, "walk")
                /\ stack' = Consumed
                /\ diag' = diag \cup msgs
                /\ UNCHANGED <<cwd, ret>>
    /\ UNCHANGED <<svars, config, sender, workers, lock, joined, taken, out>>

\* the end of the for loop: Ok(()) goes to the caller, which for a nested
\* call is the loop one level up, at env::set_current_dir("../")?
WalkReturn ==
    /\ mainpc = "walk"
    /\ stack # <<>>
    /\ Top.rest = <<>>
    /\ IF Len(stack) = 1
       THEN /\ stack' = <<>>
            /\ ret' = "Ok"
            /\ mainpc' = "drop"
            /\ UNCHANGED <<cwd, diag>>
       ELSE IF ChdirOk(Rel(<<DOTDOT>>))
       THEN /\ stack' = SubSeq(stack, 1, Len(stack) - 1)
            /\ cwd' = Canon(cwd, Rel(<<DOTDOT>>))
            /\ UNCHANGED <<ret, mainpc, diag>>
       ELSE /\ Abort
    /\ UNCHANGED <<svars, config, sender, queue, jobs, workers, lock, joined, taken, out>>

run_dir ==
    /\ config.force_git
    /\ WalkEntry(FALSE) \/ WalkReturn

run_dir_with_git ==
    /\ ~config.force_git
    /\ WalkEntry(TRUE) \/ WalkReturn

\* main: std::fs::metadata(&config.file_path), exit(2) on error
MainMetadata ==
    /\ mainpc = "start"
    /\ IF Canon(cwd, config.file_path) = NoPath
       THEN /\ mainpc' = "exit2"
            /\ diag' = diag \cup {<<"Error obtaining metadata", <<>>>>}
       ELSE /\ mainpc' = "new"
            /\ UNCHANGED diag
    /\ UNCHANGED <<svars, config, cwd, stack, ret, sender, queue, jobs, workers, lock,
                   joined, taken, out>>

MainNew == ThreadPoolNew("dispatch")

\* main: the choice between run_dir, run_dir_with_git and run, with the
\* first statements of the function chosen
MainDispatch ==
    /\ mainpc = "dispatch"
    /\ LET md == FS[Canon(cwd, config.file_path)]
           res == RunResult(config.file_path)
       IN  IF md.kind = "dir"
           THEN IF ~config.force_git /\ ~config.repo
                THEN /\ mainpc' = "exit2"
                     /\ diag' = diag \cup {<<"Error obtaining git repo", <<>>>>}
                     /\ UNCHANGED <<cwd, stack, ret, out>>
                ELSE IF ChdirOk(config.file_path)
                THEN /\ mainpc' = "walk"
                     /\ cwd' = Canon(cwd, config.file_path)
                     /\ stack' = <<Frame(config.file_path)>>
                     /\ UNCHANGED <<diag, ret, out>>
                ELSE /\ mainpc' = "drop"
                     /\ ret' = "Err"
                     /\ diag' = diag \cup {<<"Application error", <<>>>>}
                     /\ UNCHANGED <<cwd, stack, out>>
           ELSE /\ mainpc' = "drop"
                /\ ret' = IF res = "Printed" THEN "Ok" ELSE res
                /\ out' = IF res = "Printed" THEN out \cup {config.file_path} ELSE out
                /\ diag' = IF res = "Err"
                           THEN diag \cup {<<"Application error", <<>>>>}
                           ELSE diag
                /\ UNCHANGED <<cwd, stack>>
    /\ UNCHANGED <<svars, config, sender, queue, jobs, workers, lock, joined, taken>>

\* the command lines: where minigrep is started and the path it is given
Targets ==
    { Rel(<<DOT>>), Abs(<<O>>), Abs(<<X>>), Abs(<<Y>>), Rel(<<DOTDOT, L>>),
      Rel(<<A>>), Abs(<<GONE>>) }

\* the directory minigrep is started in, and its path argument
Starts == { <<<<W>>, t>> : t \in Targets } \cup { <<<<P>>, Rel(<<DOT>>)>> }

Configs ==
    { [file_path |-> s[2], original_path |-> s[1], repo |-> r,
       hidden_files |-> h, force_git |-> g, thread_count |-> n] :
        s \in Starts, r \in BOOLEAN, h \in BOOLEAN, g \in BOOLEAN,
        n \in 0..MaxWorkers }

Init ==
    /\ config \in { c \in Configs :
                       c.repo \/ (c.original_path = <<W>> /\ c.file_path = Rel(<<DOT>>) /\ ~c.force_git) }
    /\ mainpc = "start"
    /\ cwd = config.original_path
    /\ stack = <<>>
    /\ ret = "none"
    /\ diag = {}
    /\ sender = FALSE
    /\ queue = <<>>
    /\ jobs = <<>>
    /\ workers = <<>>
    /\ lock = 0
    /\ joined = 0
    /\ taken = <<>>
    /\ out = {}
    /\ NoSearch

Next ==
    \/ MainMetadata
    \/ MainNew
    \/ MainDispatch
    \/ run_dir
    \/ run_dir_with_git
    \/ \E w \in DOMAIN workers : WorkerLock(w)
    \/ \E w \in DOMAIN workers : WorkerRecv(w)
    \/ \E w \in DOMAIN workers : WorkerRun(w)
    \/ DropSender
    \/ DropJoin

Spec == Init /\ [][Next]_vars

\* The scheduler runs some thread that can take a step.
FairPoolSpec == PoolSpec /\ WF_vars(PoolNext)
FairSpec == Spec /\ WF_vars(Next)

(***************************************************************************)
(* Properties of the pool                                                  *)
(***************************************************************************)
JobIds == 1..Len(jobs)

Dropped == mainpc = "exit"

\* C1: when Drop for ThreadPool has returned, every job passed to execute
\* has been run exactly once.
C1_EveryJobRunOnce ==
    Dropped => \A j \in JobIds : jobs[j].n = 1

\* C2: a job that fails while it runs does not terminate its worker: no
\* worker thread is ever dead because of a job.
C2_WorkerSurvivesJob ==
    \A w \in DOMAIN workers : workers[w].state # "dead"

\* C3: once the drop of the pool has begun it completes: every worker
\* exits and is joined, also when no job was submitted and when workers
\* have died of a panicking job.
C3_DropCompletes == (mainpc = "drop") ~> (mainpc = "exit")

\* the drop completed although every worker had died with jobs still queued
C3_Witness ==
    /\ mainpc = "exit"
    /\ queue # <<>>
    /\ \A w \in DOMAIN workers : workers[w].state = "dead"

\* C5: execute on a pool whose receive side is gone drops the job
\* silently: the submitter does not panic, and the job is neither queued
\* nor handed to a worker nor run.
C5_SilentDrop ==
    /\ workers # <<>> => mainpc # "panicked"
    /\ \A j \in JobIds :
          ~jobs[j].sent =>
              /\ jobs[j].n = 0
              /\ \A i \in 1..Len(queue) : queue[i] # j
              /\ \A i \in 1..Len(taken) : taken[i] # j

\* a submission was dropped, the submitter went on and the pool was dropped
C5_Witness ==
    /\ mainpc = "exit"
    /\ \E j \in JobIds : ~jobs[j].sent

RECURSIVE Accepted(_)
\* the ids of the jobs the channel accepted among the first k, ascending
Accepted(k) ==
    IF k = 0 THEN <<>>
    ELSE IF jobs[k].sent THEN Append(Accepted(k - 1), k) ELSE Accepted(k - 1)

\* C6: jobs leave the queue in submission order: the jobs handed to
\* workers so far, followed by the jobs still queued, are the accepted
\* jobs in the order of their execute calls.
C6_FifoDelivery == taken \o queue = Accepted(Len(jobs))

\* two jobs were handed out in submission order and the later one
\* completed first
C6_Witness ==
    /\ Len(taken) >= 2
    /\ jobs[taken[1]].n = 0
    /\ jobs[taken[2]].n = 1

(***************************************************************************)
(* Properties of the walk                                                  *)
(***************************************************************************)
\* the directory main is asked to search
Root == Canon(config.original_path, config.file_path)

\* a walk of Root was started and has returned to main
Walked ==
    /\ mainpc \in {"drop", "join", "exit"}
    /\ Root # NoPath
    /\ FS[Root].kind = "dir"

Under(root) == { p \in DOMAIN FS : p # root /\ IsPrefix(root, p) }

FilesUnder(root) == { p \in Under(root) : FS[p].kind = "file" }

\* every directory of the tree can be entered
Enterable(root) ==
    \A p \in Under(root) \cup {root} : FS[p].kind = "dir" => FS[p].x

\* every entry of the tree can be read and its metadata obtained
Readable(root) ==
    \A p \in Under(root) \cup {root} :
        /\ Canon(<<>>, Abs(p)) # NoPath
        /\ \A i \in 1..Len(FS[p].entries) : FS[p].entries[i] # ERR

\* no entry of the tree is a symbolic link: the tree holds exactly the
\* files whose path lies under root
Plain(root) == \A p \in Under(root) : FS[p].kind # "symlink"

\* every file name of the tree is valid UTF-8
Named(root) == \A p \in Under(root) : Utf8(p[Len(p)])

HiddenBelow(root, p) ==
    \E i \in (Len(root) + 1)..Len(p) : StartsWithDot(p[i])

IgnoredBelow(root, p) ==
    \E i \in (Len(root) + 1)..Len(p) : SubSeq(p, 1, i) \in IgnoredPaths

\* the directory entries for which a job was submitted
JobEntries == { jobs[j].entry : j \in JobIds }

\* C4: every job holds an absolute path, and the file it reads when a
\* worker runs it is the directory entry the walker submitted it for,
\* whatever the working directory is by then.
C4_JobReadsItsEntry ==
    \A j \in JobIds :
        /\ jobs[j].file_path.abs
        /\ jobs[j].n > 0 => jobs[j].read = Canon(<<>>, Abs(jobs[j].entry))

C8_HiddenFilter ==
    /\ ~config.hidden_files =>
          \A j \in JobIds : ~HiddenBelow(Root, jobs[j].entry)
    /\ (Walked /\ Enterable(Root) /\ Readable(Root) /\ Named(Root)) =>
          \A f \in FilesUnder(Root) :
              (config.force_git \/ ~IgnoredBelow(Root, f)) =>
                  (f \in JobEntries <=>
                      (config.hidden_files \/ ~HiddenBelow(Root, f)))
    /\ (Walked /\ Root = <<W>>) =>
          Len(jobs) = IF config.hidden_files THEN 3 ELSE 2

\* the walk of {a, .s, sub/b} with the flag off ended with two jobs
C8_Witness ==
    /\ Walked
    /\ ~config.hidden_files
    /\ Root = <<W>>
    /\ JobEntries = { <<W, A>>, <<W, SUB, B>> }

\* C9: with the ignore rules active no job is submitted for an ignored
\* entry or for anything below an ignored directory, and the other
\* entries are not affected; with force_git the ignored entries get
\* their jobs like the others.
C9_IgnoreRules ==
    /\ ~config.force_git =>
          \A j \in JobIds : ~IgnoredBelow(Root, jobs[j].entry)
    /\ (Walked /\ Enterable(Root) /\ Readable(Root) /\ Named(Root)) =>
          \A f \in FilesUnder(Root) :
              (config.hidden_files \/ ~HiddenBelow(Root, f)) =>
                  (f \in JobEntries <=>
                      (config.force_git \/ ~IgnoredBelow(Root, f)))

\* the walk of /o under the ignore rules ended: g has its job, the ignored
\* file e and the file d of the ignored directory ig have none
C9_Witness ==
    /\ Walked
    /\ ~config.force_git
    /\ Root = <<O>>
    /\ <<O, G>> \in JobEntries
    /\ <<O, E>> \notin JobEntries
    /\ <<O, IG, D>> \notin JobEntries

\* C10: an entry that cannot be read, or whose metadata cannot be
\* obtained, is reported and skipped alone: when the walk of a tree whose
\* directories can all be entered (and whose names are valid UTF-8) is
\* over, the unreadable items are on stderr and every file that passes the
\* filters has its job.
C10_EntryErrorSkipsOneEntry ==
    (Walked /\ Enterable(Root) /\ Named(Root)) =>
        /\ \A d \in Under(Root) \cup {Root} :
              (\E i \in 1..Len(FS[d].entries) : FS[d].entries[i] = ERR)
                  => <<"entry error", d>> \in diag
        /\ \A f \in FilesUnder(Root) :
              (/\ config.hidden_files \/ ~HiddenBelow(Root, f)
               /\ config.force_git \/ ~IgnoredBelow(Root, f))
              => f \in JobEntries

(***************************************************************************)
(* Properties of the walk under failures of set_current_dir                *)
(***************************************************************************)
\* p lies below a directory of the tree under root that cannot be entered
BelowBlocked(root, p) ==
    \E i \in (Len(root) + 1)..(Len(p) - 1) :
        LET d == SubSeq(p, 1, i) IN FS[d].kind = "dir" /\ ~FS[d].x

\* C11: a subdirectory that cannot be entered aborts the walk of that
\* subtree only: when the walk of a tree whose root can be entered is over,
\* every file that passes the hidden-file and ignore filters and does not
\* lie below a directory that cannot be entered has a job, the later
\* entries of the ancestor directories included.
C11_ChdirFailureAbortsSubtreeOnly ==
    (Walked /\ FS[Root].x /\ Readable(Root) /\ Named(Root)) =>
        \A f \in FilesUnder(Root) :
            ( /\ ~BelowBlocked(Root, f)
              /\ config.hidden_files \/ ~HiddenBelow(Root, f)
              /\ config.force_git \/ ~IgnoredBelow(Root, f) )
            => f \in JobEntries

(***************************************************************************)
(* Properties of main                                                      *)
(***************************************************************************)
\* C12: when a walk was started and main has returned (Ok or Err), the
\* pool has been dropped and every job submitted during the walk has been
\* run to its end: none is left in the queue, none was never run, and no
\* worker is in the middle of one.
C12_NoJobAbandonedAtExit ==
    (Walked /\ mainpc = "exit" /\ ret \in {"Ok", "Err"}) =>
        /\ ~sender
        /\ joined = Len(workers)
        /\ queue = <<>>
        /\ \A w \in DOMAIN workers : workers[w].state # "job"
        /\ \A j \in JobIds : jobs[j].n = 1

\* the files for which run prints a block: the entries submitted by the
\* walk, which does not look at thread_count, that are text with a
\* matching line and lie under the invocation directory
PrintingEntries ==
    { e \in JobEntries :
        /\ FS[e].kind = "file" /\ FS[e].text /\ FS[e].hits
        /\ ToStrOk(e) /\ IsPrefix(config.original_path, e) }

\* C13: when the pool has been dropped after a walk, the set of files for
\* which a block was printed is the one the tree and the configuration
\* determine, whatever the number of workers and also when a job fails.
C13_OutputSameForEveryWorkerCount ==
    (Walked /\ mainpc = "exit") =>
        out = { Abs(e) : e \in PrintingEntries }

(***************************************************************************)
(* Properties of the workers                                               *)
(***************************************************************************)
\* C14: ThreadPool::new panics for size zero and makes no pool; for a
\* size of one or more it makes exactly size workers, all waiting on the
\* one queue while no job has been submitted, and from construction until
\* the pool is dropped exactly size worker threads are alive.
C14_ExactlySizeWorkers ==
    /\ config.thread_count = 0 =>
          (mainpc \in {"new", "panicked"} /\ workers = <<>> /\ ~sender)
    /\ mainpc = "panicked" => config.thread_count = 0
    /\ sender =>
          /\ Len(workers) = config.thread_count
          /\ jobs = <<>> => \A w \in DOMAIN workers : workers[w].state \in {"lock", "recv"}
          /\ Cardinality({ w \in DOMAIN workers : ~Gone(w) }) = config.thread_count

(***************************************************************************)
(* The search of one file (lib.rs).  A str is its sequence of UTF-8 bytes: *)
(* "a" and "A" are one byte each, U+0130 (capital I with dot above) is the *)
(* two bytes C4 B0, and its lowercase is "i" followed by U+0307, the two   *)
(* bytes CC 87.  Offsets count bytes, from 0.                              *)
(***************************************************************************)
LF == "LF"

\* the bytes that continue a character
Continuation == { "B0", "87" }

QueryChars == { <<"a">>, <<"A">>, <<"C4", "B0">> }
TextChars == QueryChars \cup { <<LF>> }

\* the strings of at most n characters of cs
RECURSIVE Strings(_, _)
Strings(cs, n) ==
    IF n = 0 THEN { <<>> }
    ELSE LET shorter == Strings(cs, n - 1)
         IN  shorter \cup { s \o c : s \in shorter, c \in cs }

\* str::is_char_boundary
is_char_boundary(s, i) ==
    /\ i <= Len(s)
    /\ i = 0 \/ i = Len(s) \/ s[i + 1] \notin Continuation

\* str::to_lowercase
RECURSIVE to_lowercase(_)
to_lowercase(s) ==
    IF s = <<>> THEN <<>>
    ELSE IF Head(s) = "A" THEN <<"a">> \o to_lowercase(Tail(s))
    ELSE IF Head(s) = "C4"
         THEN <<"i", "CC", "87">> \o to_lowercase(SubSeq(s, 3, Len(s)))
    ELSE <<Head(s)>> \o to_lowercase(Tail(s))

\* str::lines: the pieces between line feeds; a final line feed ends the
\* last line and starts no empty one
RECURSIVE lines(_)
lines(s) ==
    IF s = <<>> THEN <<>>
    ELSE IF \E k \in 1..Len(s) : s[k] = LF
         THEN LET k == CHOOSE k \in 1..Len(s) :
                           s[k] = LF /\ \A h \in 1..(k - 1) : s[h] # LF
              IN  <<SubSeq(s, 1, k - 1)>> \o lines(SubSeq(s, k + 1, Len(s)))
         ELSE <<s>>

\* the same scan, but going on one byte after the start of a match
RECURSIVE MatchFromOverlapping(_, _, _)
MatchFromOverlapping(s, pat, i) ==
    IF i + Len(pat) > Len(s) THEN <<>>
    ELSE IF SubSeq(s, i + 1, i + Len(pat)) = pat /\ is_char_boundary(s, i)
         THEN <<i>> \o MatchFromOverlapping(s, pat, i + 1)
         ELSE MatchFromOverlapping(s, pat, i + 1)

\* str::match_indices from offset i on: the searcher reports a match at the
\* first offset where pat occurs and goes on behind it; an empty pat
\* matches at every char boundary, the end of s included
RECURSIVE MatchFrom(_, _, _)
MatchFrom(s, pat, i) ==
    IF i + Len(pat) > Len(s) THEN <<>>
    ELSE IF SubSeq(s, i + 1, i + Len(pat)) = pat /\ is_char_boundary(s, i)
         THEN <<i>> \o MatchFrom(s, pat, IF pat = <<>> THEN i + 1 ELSE i + Len(pat))
         ELSE MatchFrom(s, pat, i + 1)

match_indices(s, pat) == MatchFrom(s, pat, 0)

search(q, c) ==
    LET ls == lines(c)
        all == [n \in 1..Len(ls) |->
                   [indices |-> match_indices(ls[n], q),
                    num |-> n - 1, line |-> ls[n]]]
        found(r) == r.indices # <<>>
    IN  SelectSeq(all, found)

search_case_insensitive(q, c) ==
    LET lq == to_lowercase(q)
        ls == lines(c)
        all == [n \in 1..Len(ls) |->
                   [indices |-> match_indices(to_lowercase(ls[n]), lq),
                    num |-> n - 1, line |-> ls[n]]]
        found(r) == r.indices # <<>>
    IN  SelectSeq(all, found)

Normal(t) == [color |-> "normal", text |-> t]
Red(t) == [color |-> "red", text |-> t]

\* what stands for the panic of split_at, of a slice or of the subtraction
Panic == << [color |-> "panic", text |-> <<>>] >>

\* the for loop of split_by_matches and the push behind it
RECURSIVE SplitLoop(_, _, _, _, _)
SplitLoop(match_str, real_index, indices, query_len, output) ==
    IF indices = <<>> THEN Append(output, Normal(match_str))
    ELSE IF Head(indices) < real_index THEN Panic
    ELSE LET current_index == Head(indices) - real_index
         IN  IF ~is_char_boundary(match_str, current_index) THEN Panic
             ELSE LET pre_match == SubSeq(match_str, 1, current_index)
                      rest == SubSeq(match_str, current_index + 1, Len(match_str))
                  IN  IF ~is_char_boundary(rest, query_len) THEN Panic
                      ELSE SplitLoop(SubSeq(rest, query_len + 1, Len(rest)),
                                     real_index + current_index + query_len,
                                     Tail(indices), query_len,
                                     (IF pre_match # <<>>
                                      THEN Append(output, Normal(pre_match))
                                      ELSE output)
                                         \o << Red(SubSeq(rest, 1, query_len)) >>)

split_by_matches(line, indices, query_len) ==
    SplitLoop(line, 0, indices, query_len, <<>>)

\* run, behind read_to_string: the search
RunSearch ==
    /\ runpc = "read"
    /\ results' = IF ignore_case
                  THEN search_case_insensitive(query, contents)
                  ELSE search(query, contents)
    /\ runpc' = "searched"
    /\ UNCHANGED <<mvars, query, ignore_case, contents, chunks>>

\* run: the lines of the block, each split at its matches
RunFormat ==
    /\ runpc = "searched"
    /\ chunks' = [k \in 1..Len(results) |->
                     split_by_matches(results[k].line, results[k].indices,
                                      Len(query))]
    /\ runpc' = IF \E k \in 1..Len(results) : chunks'[k] = Panic
                THEN "panicked" ELSE "done"
    /\ UNCHANGED <<mvars, query, ignore_case, contents, results>>

SearchInit ==
    /\ config = PoolConfig(1)
    /\ mainpc = "run"
    /\ cwd = config.original_path
    /\ stack = <<>>
    /\ ret = "none"
    /\ diag = {}
    /\ sender = FALSE
    /\ queue = <<>>
    /\ jobs = <<>>
    /\ workers = <<>>
    /\ lock = 0
    /\ joined = 0
    /\ taken = <<>>
    /\ out = {}
    /\ query \in Strings(QueryChars, MaxQuery)
    /\ ignore_case \in BOOLEAN
    /\ contents \in Strings(TextChars, MaxText)
    /\ results = <<>>
    /\ chunks = <<>>
    /\ runpc = "read"

SearchNext == RunSearch \/ RunFormat

SearchSpec == SearchInit /\ [][SearchNext]_vars

(***************************************************************************)
(* Properties of the search                                                *)
(***************************************************************************)
\* the text a line is matched in, and the text looked for
Hay(line) == IF ignore_case THEN to_lowercase(line) ELSE line
Needle == IF ignore_case THEN to_lowercase(query) ELSE query

\* pat occurs in s at offset i
Occurs(s, pat, i) ==
    /\ i + Len(pat) <= Len(s)
    /\ is_char_boundary(s, i)
    /\ SubSeq(s, i + 1, i + Len(pat)) = pat

Offsets(s) == 0..Len(s)

\* C15: the search (case-insensitive: of the lowercased query in the
\* lowercased line) returns, in increasing line order, exactly the lines in
\* which the query occurs, each with its zero-based number, its original
\* text and the ascending offsets of the occurrences of the query taken
\* from left to right without overlap; a line without an occurrence is
\* absent.
C15_SearchReturnsMatchingLines ==
    runpc # "read" =>
        LET ls == lines(contents)
        IN  /\ \A k \in 1..Len(results) :
                 LET r == results[k]
                     h == Hay(r.line)
                 IN  /\ r.num \in 0..(Len(ls) - 1)
                     /\ r.line = ls[r.num + 1]
                     /\ k > 1 => results[k - 1].num < r.num
                     /\ r.indices # <<>>
                     /\ \A a \in 1..Len(r.indices) :
                           /\ Occurs(h, Needle, r.indices[a])
                           /\ a > 1 => r.indices[a - 1] < r.indices[a]
                           /\ a > 1 => r.indices[a - 1] + Len(Needle) <= r.indices[a]
                     \* an occurrence that is not reported overlaps a
                     \* reported one that starts before it
                     /\ \A i \in Offsets(h) :
                           Occurs(h, Needle, i) =>
                              \E a \in 1..Len(r.indices) :
                                  \/ r.indices[a] = i
                                  \/ /\ r.indices[a] < i
                                     /\ i < r.indices[a] + Len(Needle)
            /\ \A n \in 1..Len(ls) :
                 (\E i \in Offsets(Hay(ls[n])) : Occurs(Hay(ls[n]), Needle, i))
                    <=> \E k \in 1..Len(results) : results[k].num = n - 1

\* a case-insensitive search over three lines returned the first, in its
\* original upper case, and the third, and not the second
C15_Witness ==
    /\ runpc = "searched"
    /\ ignore_case
    /\ Len(lines(contents)) = 3
    /\ Len(results) = 2
    /\ results[1].line = <<"A">>
    /\ results[2].num = 2

\* the texts of the chunks cs, one behind the other
RECURSIVE Concat(_)
Concat(cs) == IF cs = <<>> THEN <<>> ELSE Head(cs).text \o Concat(Tail(cs))

\* the chunks the matches from the a-th on stand for in line: for each the
\* stretch before it, when not empty, and the match itself
RECURSIVE MatchChunks(_, _, _, _)
MatchChunks(line, indices, query_len, a) ==
    IF a > Len(indices) THEN <<>>
    ELSE LET from == IF a = 1 THEN 0 ELSE indices[a - 1] + query_len
             stretch == SubSeq(line, from + 1, indices[a])
         IN  (IF stretch # <<>> THEN << Normal(stretch) >> ELSE <<>>)
                 \o << Red(SubSeq(line, indices[a] + 1, indices[a] + query_len)) >>
                 \o MatchChunks(line, indices, query_len, a + 1)

\* C16: for every line the search returned, with its offsets and the
\* length of the query, split_by_matches returns chunks that put together
\* are the line: a red chunk of the length of the query at each offset, a
\* normal chunk for each stretch before a match that is not empty, and the
\* rest behind the last match as the final normal chunk.
C16_ChunksRebuildLine ==
    runpc \in {"done", "panicked"} =>
        \A k \in 1..Len(results) :
            LET line == results[k].line
                indices == results[k].indices
                query_len == Len(query)
                last == indices[Len(indices)] + query_len
            IN  /\ chunks[k] # Panic
                /\ Concat(chunks[k]) = line
                /\ \A a \in 1..Len(indices) :
                      /\ indices[a] + query_len <= Len(line)
                      /\ a > 1 => indices[a - 1] + query_len <= indices[a]
                /\ chunks[k] = MatchChunks(line, indices, query_len, 1)
                                  \o << Normal(SubSeq(line, last + 1, Len(line))) >>

(***************************************************************************)
(* Properties of the worker loop and of the queue                          *)
(***************************************************************************)
\* where a worker is in its loop
Phase(st) ==
    IF st \in {"lock", "recv"} THEN "Waiting"
    ELSE IF st = "job" THEN "Executing"
    ELSE "Terminated"

\* C17: a worker only goes from Waiting to Executing, from Executing back
\* to Waiting, and from Waiting to Terminated, the last only when its recv
\* finds the channel closed and empty; a Terminated worker stays so.
C17_WorkerLifecycle ==
    [][ \A w \in DOMAIN workers :
            LET from == Phase(workers[w].state)
                to == Phase(workers'[w].state)
            IN  from # to =>
                  \/ from = "Waiting" /\ to = "Executing"
                  \/ from = "Executing" /\ to = "Waiting"
                  \/ /\ from = "Waiting" /\ to = "Terminated"
                     /\ workers[w].state = "recv"
                     /\ queue = <<>>
                     /\ ~sender ]_vars

(***************************************************************************)
(* Properties of the working directory during the walk                     *)
(***************************************************************************)
\* C18: whenever a level of the walk is at one of its entries, the first
\* or the one behind a subdirectory whose recursive call has returned, the
\* working directory of the process is the directory of that level, at
\* every depth.
C18_CursorAtLevel ==
    (mainpc = "walk" /\ stack # <<>>) => cwd = Top.dir

\* C19: execute and the walk never wait for a worker: while the walk is
\* on, its next step, the submission of a job included, can be taken
\* whatever the length of the queue and whatever the workers are doing.
C19_SubmissionNeverWaits ==
    mainpc = "walk" => ENABLED (run_dir \/ run_dir_with_git)

\* the walk of /o has returned Ok with its four jobs submitted while both
\* workers are busy with a job each, two jobs wait in the queue and no job
\* has been run to its end
C19_Witness ==
    /\ mainpc = "drop"
    /\ ret = "Ok"
    /\ Len(jobs) = 4
    /\ Len(queue) = 2
    /\ \A w \in DOMAIN workers : workers[w].state = "job"
    /\ Len(workers) = 2
    /\ \A j \in JobIds : jobs[j].n = 0

\* C20: the lock around the receiver is held by at most one worker, the
\* one that is in recv, and never by a worker that runs a job; a worker
\* that runs a job keeps no other worker from locking and receiving, so
\* that as many jobs run at the same time as there are workers.
C20_LockNotHeldAcrossJob ==
    /\ lock \in {0} \cup DOMAIN workers
    /\ \A w \in DOMAIN workers :
          /\ workers[w].state = "recv" <=> lock = w
          /\ workers[w].state = "job" => lock # w
          /\ (workers[w].state = "lock"
                /\ \A v \in DOMAIN workers \ {w} : workers[v].state \notin {"recv"})
             => ENABLED WorkerLock(w)
          /\ (workers[w].state = "recv" /\ queue # <<>>) => ENABLED WorkerRecv(w)

\* two workers, each running a job, while a third job waits in the queue
C20_Witness ==
    /\ Len(workers) = 2
    /\ \A w \in DOMAIN workers : workers[w].state = "job"
    /\ workers[1].job # workers[2].job
    /\ queue # <<>>

====
